---- MODULE Spec2Model ----
(***************************************************************************)
(* Per-bar decision engine of MLProbabilisticStrategy (src/strategy.py)    *)
(* together with the order book of the broker it trades through, and the   *)
(* multiprocess parameter sweep (src/sweep.py, src/utils/sweep_worker.py). *)
(*                                                                         *)
(* Probabilities and fractions are fixed-point integers in units of        *)
(* 1/10000 (0.58 is 5800); the target fraction is kept as an exact         *)
(* rational [num, den] so that min() and the division by the number of     *)
(* candidates are computed without rounding.                               *)
(***************************************************************************)
EXTENDS Integers, Sequences, FiniteSets, TLC

\* ------------------------------------------------------------------ bounds
NumInstruments == 3
MaxBars == 2
MaxNotify == 2
Price == 1000
MaxUniverses == 2
MaxWorkers == 2
GridSize == 1

Instruments == 1..NumInstruments

\* ------------------------------------------------------- program constants
One == 100 * 100
INITIAL_CASH == 10000
MAX_POSITION_PCT == 2000
CASH_BUFFER_PCT == 500
MIN_EDGE == 5
trailpercent == 500
VwapWindow == 20
Half == One \div 2

\* probabilities the classifier may return for an instrument in a bar
ProbValues == {4100, 5000, 6200}

\* ------------------------------------------------------------- sequences
Range(s) == {s[k] : k \in DOMAIN s}

Take(s, n) == SubSeq(s, 1, IF n < Len(s) THEN n ELSE Len(s))

RemoveAt(s, k) == SubSeq(s, 1, k - 1) \o SubSeq(s, k + 1, Len(s))

RECURSIVE Flatten(_)
Flatten(ss) == IF ss = << >> THEN << >> ELSE Head(ss) \o Flatten(Tail(ss))

Perms(S) == {s \in [1..Cardinality(S) -> S] : Range(s) = S}

\* ------------------------------------------------------------- rationals
Rat(n, d) == [num |-> n, den |-> d]
RatLeq(a, b) == a.num * b.den <= b.num * a.den
RatMin(a, b) == IF RatLeq(a, b) THEN a ELSE b
RatNeg(a) == Rat(-a.num, a.den)
RatAbs(a) == IF a.num < 0 THEN RatNeg(a) ELSE a
RatTimes(a, k) == Rat(a.num * k, a.den)
RatEq(a, b) == a.num * b.den = b.num * a.den

VARIABLES
    datas,        \* the data feeds, in the order they were added
    params,       \* strategy parameters (self.p)
    hp,           \* run_once keywords the strategy declares no parameter for
    barlen,       \* len(self): bars delivered so far
    position,     \* broker: signed position size per instrument
    orders,       \* broker: open orders, in submission order
    evaluated,    \* the last next() got past the warm-up guard
    held,         \* last bar: the position sizes next() read from the broker
    nanfeat,      \* instruments whose feature vector had a NaN in the last bar
    scores,       \* last bar: <<d, p_up>> per scored instrument, in datas order
    longs,        \* last bar: selected longs
    shorts,       \* last bar: selected shorts
    target_pct,   \* last bar: target fraction (Rat(0, 1) when none was computed)
    calls,        \* last bar: broker calls made by next(), in call order
    entryFilled,  \* an entry order of the instrument has been executed
    notified      \* fill notifications processed for that executed entry

VARIABLES
    universes,    \* sweep: the universe names given to main
    n_workers,    \* sweep: --workers
    main_pc,      \* sweep: where main is
    task_q,       \* sweep: the shared task queue
    result_q,     \* sweep: the shared result queue
    procs,        \* sweep: the started worker processes
    finished,     \* sweep: rows main has written
    csv_rows      \* sweep: the rows of the CSV file, in the order written

sweepvars ==
    <<universes, n_workers, main_pc, task_q, result_q, procs, finished, csv_rows>>

vars ==
    <<datas, params, hp, barlen, position, orders, evaluated, held, nanfeat, scores,
      longs, shorts, target_pct, calls, entryFilled, notified, sweepvars>>

\* ------------------------------------------------------------- selection
\* variant: the sort key of the longs is not negated
LongKeyAscending(t) == t[2]

LongKey(t) == -t[2]
ShortKey(t) == t[2]

\* Python's sorted(): stable, ascending in the key.  Rows are <<key, item>>.
RECURSIVE InsertSorted(_, _)
InsertSorted(s, x) ==
    IF s = << >> THEN <<x>>
    ELSE IF x[1] < Head(s)[1] THEN <<x>> \o s
    ELSE <<Head(s)>> \o InsertSorted(Tail(s), x)

RECURSIVE SortRows(_)
SortRows(s) ==
    IF s = << >> THEN << >>
    ELSE InsertSorted(SortRows(SubSeq(s, 1, Len(s) - 1)), s[Len(s)])

Unkeyed(rows) == [k \in DOMAIN rows |-> rows[k][2]]

\* sorted(scores, key=lambda t: -t[1]) and sorted(scores, key=lambda t: t[1])
SortedLongs(sc) == Unkeyed(SortRows([k \in DOMAIN sc |-> <<LongKey(sc[k]), sc[k]>>]))
SortedShorts(sc) == Unkeyed(SortRows([k \in DOMAIN sc |-> <<ShortKey(sc[k]), sc[k]>>]))

FirstOf(s) == [k \in DOMAIN s |-> s[k][1]]

IsLong(p, t) == t[2] >= p.p_long
IsShort(p, t) == t[2] <= p.p_short

\* variant: the slice keeps one entry too many
TruncateOffByOne(s, p) == Take(s, p.max_long_short + 1)

Truncate(s, p) == Take(s, p.max_long_short)

Longs(sc, p) ==
    Truncate(FirstOf(SelectSeq(SortedLongs(sc), LAMBDA t : IsLong(p, t))), p)

Shorts(sc, p) ==
    Truncate(FirstOf(SelectSeq(SortedShorts(sc), LAMBDA t : IsShort(p, t))), p)

\* what a bar holds for one instrument: bars delivered so far, the trailing
\* volume sum, whether an indicator line is NaN, and what predict_proba returns
BarInput(n, v, b, p) == [len |-> n, vol_sum |-> v, ind_nan |-> b, p_up |-> p]

\* complete rows, and rows with a NaN: window too short, no trailing volume,
\* an indicator still NaN
BarInputs ==
    {BarInput(VwapWindow, 1, FALSE, p) : p \in ProbValues}
    \cup {BarInput(VwapWindow - 1, 1, FALSE, 6200),
          BarInput(VwapWindow, 0, FALSE, 6200),
          BarInput(VwapWindow, 1, TRUE, 6200)}

\* vwap_gap is np.nan below 20 bars or when the trailing volume sums to zero
VwapGapIsNaN(len_d, vol_sum) ==
    IF len_d >= VwapWindow THEN vol_sum = 0 ELSE TRUE

\* np.isnan(feats).any()
FeatsHaveNaN(row) == row.ind_nan \/ VwapGapIsNaN(row.len, row.vol_sum)

NaNSet(ds, rows) == {d \in Range(ds) : FeatsHaveNaN(rows[d])}

\* variant: a row with a NaN is scored like any other
ScoresNoSkip(ds, nan, prob) ==
    [k \in DOMAIN ds |-> <<ds[k], prob[ds[k]]>>]

\* scores list built by the loop over self.datas (rows with a NaN are skipped)
Scores(ds, nan, prob) ==
    Flatten([k \in DOMAIN ds |->
        IF ds[k] \in nan THEN << >> ELSE << <<ds[k], prob[ds[k]]>> >>])

\* ---------------------------------------------------------------- sizing
\* variant: the cash buffer is left out of the divided fraction
TargetPctNoBuffer(n) ==
    RatMin(Rat(MAX_POSITION_PCT, One), Rat(One, One * n))

TargetPct(n) ==
    RatMin(Rat(MAX_POSITION_PCT, One), Rat(One - CASH_BUFFER_PCT, One * n))

\* self.sector_map is {} and never filled, so _sector_ok returns True
SectorOk(ticker, going_long) == TRUE

Call(op, d, pct) == [op |-> op, data |-> d, pct |-> pct]

NoPct == Rat(0, 1)
TrailPct == Rat(trailpercent, One)

\* the loop "close stale positions"
CloseCalls(ds, pos, lg, sh) ==
    Flatten([k \in DOMAIN ds |->
        IF pos[ds[k]] > 0 /\ ds[k] \notin Range(lg)
        THEN <<Call("close", ds[k], NoPct)>>
        ELSE IF pos[ds[k]] < 0 /\ ds[k] \notin Range(sh)
        THEN <<Call("close", ds[k], NoPct)>>
        ELSE << >>])

\* the loops "open / rebalance": one per side
OpenCalls(lst, pos, pct, going_long) ==
    Flatten([k \in DOMAIN lst |->
        IF SectorOk(lst[k], going_long)
        THEN <<Call("order_target_percent", lst[k], pct)>>
             \o (IF pos[lst[k]] = 0
                 THEN <<Call(IF going_long THEN "sell" ELSE "buy", lst[k], TrailPct)>>
                 ELSE << >>)
        ELSE << >>])

\* variant: the shorts are sized with the positive fraction
DecisionCallsUnsigned(ds, pos, lg, sh, pct) ==
    CloseCalls(ds, pos, lg, sh)
    \o OpenCalls(lg, pos, pct, TRUE)
    \o OpenCalls(sh, pos, pct, FALSE)

\* everything next() asks of the broker once it has a non-empty selection
DecisionCalls(ds, pos, lg, sh, pct) ==
    CloseCalls(ds, pos, lg, sh)
    \o OpenCalls(lg, pos, pct, TRUE)
    \o OpenCalls(sh, pos, RatNeg(pct), FALSE)

\* --------------------------------------------------- orders the calls create
Abs(x) == IF x < 0 THEN -x ELSE x

Order(d, kind, exectype, size, trail) ==
    [data |-> d, kind |-> kind, exectype |-> exectype, size |-> size,
     trailpercent |-> trail]

\* order_target_percent: a market order for the difference between the target
\* value (pct × portfolio value) and the value held, in whole shares
TargetDelta(pct, possize) ==
    LET want == pct.num * INITIAL_CASH
        have == possize * Price * pct.den
        n    == Abs(want - have) \div (pct.den * Price)
    IN  IF want > have THEN n ELSE -n

OrdersOf(c, pos) ==
    CASE c.op = "close" ->
            <<Order(c.data, "close", "Market", -pos[c.data], NoPct)>>
      [] c.op = "order_target_percent" ->
            IF TargetDelta(c.pct, pos[c.data]) = 0 THEN << >>
            ELSE <<Order(c.data, "entry", "Market",
                         TargetDelta(c.pct, pos[c.data]), NoPct)>>
      [] c.op = "sell" ->
            <<Order(c.data, "stop", "StopTrail", -1, c.pct)>>
      [] c.op = "buy" ->
            <<Order(c.data, "stop", "StopTrail", 1, c.pct)>>

Submitted(cs, pos) == Flatten([k \in DOMAIN cs |-> OrdersOf(cs[k], pos)])

\* ------------------------------------------------------------ parameters
Params(mb, pl, ps, mls) ==
    [min_bars |-> mb, p_long |-> pl, p_short |-> ps, max_long_short |-> mls]

\* (p_long, p_short): the defaults, and a configuration whose thresholds meet
Thresholds == {<<5800, 4200>>, <<5000, 5000>>}

\* hyper-parameters forwarded by run_once besides those of params
HyperParams(ts, tp) == [trade_shorts |-> ts, trail_percent |-> tp]

\* trade_shorts and trail_percent: long-only with a swept stop distance other
\* than 0.05, and a run that allows shorts
SweptHyperParams ==
    {HyperParams(FALSE, 300), HyperParams(TRUE, 500)}

Flat == [d \in Instruments |-> 0]

InitBroker ==
    /\ barlen = 0
    /\ position = Flat
    /\ orders = << >>
    /\ evaluated = FALSE
    /\ held = Flat
    /\ nanfeat = {}
    /\ scores = << >>
    /\ longs = << >>
    /\ shorts = << >>
    /\ target_pct = NoPct
    /\ calls = << >>
    /\ entryFilled = [d \in Instruments |-> FALSE]
    /\ notified = [d \in Instruments |-> 0]

\* no sweep is running
SweepIdle ==
    /\ universes = << >>
    /\ n_workers = 1
    /\ main_pc = "done"
    /\ task_q = << >>
    /\ result_q = << >>
    /\ procs = << >>
    /\ finished = 0
    /\ csv_rows = << >>

\* a two-instrument universe traded over MaxBars bars
Init ==
    /\ datas \in {<<1, 2>>}
    /\ params \in {Params(mb, t[1], t[2], mls) :
                     mb \in {1, MaxBars}, t \in {<<5800, 4200>>}, mls \in {1, 2}}
    /\ hp = HyperParams(TRUE, 500)
    /\ InitBroker
    /\ SweepIdle

\* every feed order and threshold pair, evaluated on the bar that ends warm-up
InitSelect ==
    /\ datas \in Perms(Instruments)
    /\ params \in {Params(MaxBars, t[1], t[2], mls) :
                     t \in Thresholds, mls \in {1, 2, NumInstruments}}
    /\ hp \in SweptHyperParams
    /\ InitBroker
    /\ SweepIdle

\* positions the account may already hold when a live run starts
Holdings == {-2, 0, 2}

\* a live run on an account with holdings; warm-up lasts until the last bar
InitWarm ==
    /\ datas = <<1, 2>>
    /\ params \in {Params(MaxBars, 5800, 4200, mls) : mls \in {1, 2}}
    /\ hp = HyperParams(TRUE, 500)
    /\ barlen = 0
    /\ position \in {[d \in Instruments |-> IF d = 1 THEN a ELSE IF d = 2 THEN b ELSE 0] :
                        a \in Holdings, b \in Holdings}
    /\ orders = << >>
    /\ evaluated = FALSE
    /\ held = Flat
    /\ nanfeat = {}
    /\ scores = << >>
    /\ longs = << >>
    /\ shorts = << >>
    /\ target_pct = NoPct
    /\ calls = << >>
    /\ entryFilled = [d \in Instruments |-> FALSE]
    /\ notified = [d \in Instruments |-> 0]
    /\ SweepIdle

\* ---------------------------------------------------------------- next()
\* variant: the warm-up ends one bar early
WarmingUpOneShort(n, p) == n < p.min_bars - 1

\* if len(self) < self.p.min_bars: return
WarmingUp(n, p) == n < p.min_bars

\* variant: the guard reads "not longs and shorts"
NoCandidatesTypo(lg, sh) == lg = << >> /\ sh # << >>

\* if not longs and not shorts: return
NoCandidates(lg, sh) == lg = << >> /\ sh = << >>

StrategyNext(nan, prob) ==
    LET sc  == Scores(datas, nan, prob)
        lg  == Longs(sc, params)
        sh  == Shorts(sc, params)
        pct == TargetPct(Len(lg) + Len(sh))
        cs  == DecisionCalls(datas, position, lg, sh, pct)
    IN  /\ barlen' = barlen + 1
        /\ held' = position
        /\ IF WarmingUp(barlen + 1, params)
           THEN /\ evaluated' = FALSE
                /\ nanfeat' = {}
                /\ scores' = << >>
                /\ longs' = << >>
                /\ shorts' = << >>
                /\ target_pct' = NoPct
                /\ calls' = << >>
                /\ orders' = orders
           ELSE /\ evaluated' = TRUE
                /\ nanfeat' = nan
                /\ scores' = sc
                /\ longs' = lg
                /\ shorts' = sh
                /\ IF NoCandidates(lg, sh)
                   THEN /\ target_pct' = NoPct
                        /\ calls' = << >>
                        /\ orders' = orders
                   ELSE /\ target_pct' = pct
                        /\ calls' = cs
                        /\ orders' = orders \o Submitted(cs, position)
        /\ UNCHANGED <<sweepvars, datas, params, hp, position, entryFilled, notified>>

\* the feeds deliver one more bar, while there is one, and next() runs on it
Bar ==
    /\ barlen < MaxBars
    /\ \E rows \in [Range(datas) -> BarInputs] :
          StrategyNext(NaNSet(datas, rows), [d \in Range(datas) |-> rows[d].p_up])

\* ----------------------------------------------------------------- broker
LastBar == <<evaluated, held, nanfeat, scores, longs, shorts, target_pct, calls>>

\* a market order is executed
Execute(k) ==
    /\ orders[k].exectype = "Market"
    /\ position' = [position EXCEPT ![orders[k].data] = @ + orders[k].size]
    /\ orders' = RemoveAt(orders, k)
    /\ IF orders[k].kind = "entry"
       THEN /\ entryFilled' = [entryFilled EXCEPT ![orders[k].data] = TRUE]
            /\ notified' = [notified EXCEPT ![orders[k].data] = 0]
       ELSE UNCHANGED <<entryFilled, notified>>
    /\ UNCHANGED <<sweepvars, datas, params, hp, barlen, LastBar>>

\* a market order is refused (margin) and leaves the book
Reject(k) ==
    /\ orders[k].exectype = "Market"
    /\ orders' = RemoveAt(orders, k)
    /\ UNCHANGED <<sweepvars, datas, params, hp, barlen, position, LastBar, entryFilled, notified>>

\* the price crosses a trailing stop: the stop order is executed
Trigger(k) ==
    /\ orders[k].exectype = "StopTrail"
    /\ position' = [position EXCEPT ![orders[k].data] = @ + orders[k].size]
    /\ orders' = RemoveAt(orders, k)
    /\ UNCHANGED <<sweepvars, datas, params, hp, barlen, LastBar, entryFilled, notified>>

\* variant: a handler that attaches a stop on every fill notification
NotifyOrderAttaches(d) ==
    /\ d \in Range(datas)
    /\ notified[d] < (IF entryFilled[d] THEN MaxNotify ELSE 1)
    /\ notified' = [notified EXCEPT ![d] = @ + 1]
    /\ orders' = orders \o <<Order(d, "stop", "StopTrail", -1, TrailPct)>>
    /\ UNCHANGED <<sweepvars, datas, params, hp, barlen, position, LastBar, entryFilled>>

\* the broker notifies the fill of an entry, possibly more than once, or a
\* fill the strategy has no entry for; the strategy does not override
\* notify_order, so nothing but the count changes
NotifyOrder(d) ==
    /\ d \in Range(datas)
    /\ notified[d] < (IF entryFilled[d] THEN MaxNotify ELSE 1)
    /\ notified' = [notified EXCEPT ![d] = @ + 1]
    /\ UNCHANGED <<sweepvars, datas, params, hp, barlen, position, orders, LastBar, entryFilled>>

ExecuteAny == \E k \in DOMAIN orders : Execute(k)
RejectAny == \E k \in DOMAIN orders : Reject(k)
TriggerAny == \E k \in DOMAIN orders : Trigger(k)
NotifyAny == \E d \in Instruments : NotifyOrder(d)

Next == Bar \/ ExecuteAny \/ RejectAny \/ TriggerAny \/ NotifyAny

Spec == Init /\ [][Next]_vars

NextSelect == Bar

SpecSelect == InitSelect /\ [][NextSelect]_vars

NextWarm == Bar

SpecWarm == InitWarm /\ [][NextWarm]_vars

\* ------------------------------------------------------------------ sweep
Min(a, b) == IF a < b THEN a ELSE b

\* a task on the queue: the grid point, and (for the record only) the universe
\* whose iteration of main's loop put it there
Task(c, u) == [cfg |-> c, enq |-> u]

\* the poison pill: None
NoneTask == Task(0, 0)

\* build_tasks(): the grid points, in product order
build_tasks == [k \in 1..GridSize |-> k]

\* what one iteration of "for u in universes" puts on task_q
EnqueuedFor(u) == [k \in 1..GridSize |-> Task(build_tasks[k], u)] \o <<NoneTask>>

Proc(u, pc, t) == [universe_name |-> u, pc |-> pc, cfg |-> t]

\* for u in universes[:n_workers]: Process(target=worker, args=(u, ...)).start()
StartedProcs(us, n) == [k \in 1..Min(n, Len(us)) |-> Proc(us[k], "get", NoneTask)]

total_tasks == Len(universes) * Len(build_tasks)

\* a result row: the worker's universe label, the cfg, and "final"
Row(u, t, final) == [universe |-> u, cfg |-> t.cfg, final |-> final, enq |-> t.enq]

\* run_once returns its metrics, or raises
RunOutcomes == {"metrics", "None"}

TradeIdle ==
    /\ datas = <<1, 2>>
    /\ params = Params(MaxBars, 5800, 4200, 1)
    /\ hp = HyperParams(FALSE, 500)
    /\ InitBroker

tradevars ==
    <<datas, params, hp, barlen, position, orders, evaluated, held, nanfeat, scores,
      longs, shorts, target_pct, calls, entryFilled, notified>>

InitSweep ==
    /\ universes \in {[k \in 1..n |-> k] : n \in 1..MaxUniverses}
    /\ n_workers \in 1..MaxWorkers
    /\ main_pc = "enqueue"
    /\ task_q = << >>
    /\ result_q = << >>
    /\ procs = << >>
    /\ finished = 0
    /\ csv_rows = << >>
    /\ TradeIdle

\* main: enqueue all configs for each universe, each followed by a pill
MainEnqueue ==
    /\ main_pc = "enqueue"
    /\ task_q' = Flatten([k \in DOMAIN universes |-> EnqueuedFor(universes[k])])
    /\ main_pc' = "start"
    /\ UNCHANGED <<tradevars, universes, n_workers, result_q, procs, finished, csv_rows>>

\* main: start the workers
MainStart ==
    /\ main_pc = "start"
    /\ procs' = StartedProcs(universes, n_workers)
    /\ main_pc' = "collect"
    /\ UNCHANGED <<tradevars, universes, n_workers, task_q, result_q, finished, csv_rows>>

\* main: one turn of "while finished < total_tasks"; result_q.get() blocks
MainCollect ==
    /\ main_pc = "collect"
    /\ finished < total_tasks
    /\ result_q # << >>
    /\ csv_rows' = Append(csv_rows, Head(result_q))
    /\ result_q' = Tail(result_q)
    /\ finished' = finished + 1
    /\ UNCHANGED <<tradevars, universes, n_workers, main_pc, task_q, procs>>

\* main: the loop condition fails
MainLeaveLoop ==
    /\ main_pc = "collect"
    /\ ~(finished < total_tasks)
    /\ main_pc' = "join"
    /\ UNCHANGED <<tradevars, universes, n_workers, task_q, result_q, procs, finished, csv_rows>>

\* main: p.join() for every started process
MainJoin ==
    /\ main_pc = "join"
    /\ \A i \in DOMAIN procs : procs[i].pc = "exited"
    /\ main_pc' = "done"
    /\ UNCHANGED <<tradevars, universes, n_workers, task_q, result_q, procs, finished, csv_rows>>

\* worker: task_q.get(timeout=5); on queue.Empty it tries again; a pill ends it
WorkerGet(i) ==
    /\ procs[i].pc = "get"
    /\ task_q # << >>
    /\ task_q' = Tail(task_q)
    /\ procs' = [procs EXCEPT ![i] =
                    IF Head(task_q) = NoneTask
                    THEN Proc(@.universe_name, "exited", NoneTask)
                    ELSE Proc(@.universe_name, "run", Head(task_q))]
    /\ UNCHANGED <<tradevars, universes, n_workers, main_pc, result_q, finished, csv_rows>>

\* variant: no except clause; a run_once that raises ends the worker
WorkerRunUncaught(i) ==
    /\ procs[i].pc = "run"
    /\ \E final \in RunOutcomes :
          IF final = "None"
          THEN /\ result_q' = result_q
               /\ procs' = [procs EXCEPT ![i] = Proc(@.universe_name, "exited", NoneTask)]
          ELSE /\ result_q' = Append(result_q, Row(procs[i].universe_name, procs[i].cfg, final))
               /\ procs' = [procs EXCEPT ![i] = Proc(@.universe_name, "get", NoneTask)]
    /\ UNCHANGED <<tradevars, universes, n_workers, main_pc, task_q, finished, csv_rows>>

\* worker: run_once on its own tickers, then one row on result_q
WorkerRun(i) ==
    /\ procs[i].pc = "run"
    /\ \E final \in RunOutcomes :
          result_q' = Append(result_q, Row(procs[i].universe_name, procs[i].cfg, final))
    /\ procs' = [procs EXCEPT ![i] = Proc(@.universe_name, "get", NoneTask)]
    /\ UNCHANGED <<tradevars, universes, n_workers, main_pc, task_q, finished, csv_rows>>

WorkerGetAny == \E i \in DOMAIN procs : WorkerGet(i)
WorkerRunAny == \E i \in DOMAIN procs : WorkerRun(i)

NextSweep ==
    \/ MainEnqueue
    \/ MainStart
    \/ MainCollect
    \/ MainLeaveLoop
    \/ MainJoin
    \/ WorkerGetAny
    \/ WorkerRunAny

SpecSweep == InitSweep /\ [][NextSweep]_vars

\* ===================================================================== claims
Universe == Range(datas)
NumSelected == Len(longs) + Len(shorts)
Scored == {scores[k][1] : k \in DOMAIN scores}
ProbOf(d) == (CHOOSE k \in DOMAIN scores : scores[k][1] = d)
P(d) == scores[ProbOf(d)][2]

StopCount(d) ==
    Cardinality({k \in DOMAIN orders : orders[k].data = d /\ orders[k].kind = "stop"})
EntryCount(d) ==
    Cardinality({k \in DOMAIN orders : orders[k].data = d /\ orders[k].kind = "entry"})

SizingCalls == SelectSeq(calls, LAMBDA c : c.op = "order_target_percent")
ClosedInBar == {calls[k].data : k \in {j \in DOMAIN calls : calls[j].op = "close"}}

RECURSIVE GCD(_, _)
GCD(a, b) == IF b = 0 THEN a ELSE GCD(b, a % b)
RatNorm(a) == Rat(a.num \div GCD(Abs(a.num), a.den), a.den \div GCD(Abs(a.num), a.den))
RatAdd(a, b) ==
    RatNorm(Rat(RatNorm(a).num * RatNorm(b).den + RatNorm(b).num * RatNorm(a).den,
                RatNorm(a).den * RatNorm(b).den))
RECURSIVE SumAbsPct(_)
SumAbsPct(cs) ==
    IF cs = << >> THEN Rat(0, 1)
    ELSE RatAdd(RatAbs(Head(cs).pct), SumAbsPct(Tail(cs)))

ExposureCap == Rat(One - CASH_BUFFER_PCT, One)

\* C1: once the fill of an instrument's entry order has been notified twice,
\* exactly one protective trailing-stop order is open for that instrument.
C1_OneStopAfterDuplicateFill ==
    \A d \in Universe :
        (entryFilled[d] /\ notified[d] >= 2) => StopCount(d) = 1

\* C2: every instrument has at most one open entry order and at most one open
\* protective stop order, in every reachable state.
C2_AtMostOneEntryAndStop ==
    \A d \in Universe : EntryCount(d) <= 1 /\ StopCount(d) <= 1

\* C3: the selected long list and the selected short list of a bar share no
\* instrument, for every probability assignment and every configuration.
C3_LongsShortsDisjoint ==
    Range(longs) \cap Range(shorts) = {}

\* C4: on an evaluated bar a close is issued for an instrument exactly when it
\* holds a non-zero position and is in neither selected set.
C4_CloseIffAbsentFromBoth ==
    evaluated =>
        \A d \in Universe :
            (d \in ClosedInBar) <=>
                (held[d] # 0 /\ d \notin Range(longs) /\ d \notin Range(shorts))

\* C5: with a non-empty selection, target_pct times the number of selected
\* candidates is at most 1 - cash_buffer_pct, and so is the sum of the absolute
\* target fractions of the sizing orders submitted in the bar.
C5_GrossExposureBounded ==
    (evaluated /\ NumSelected > 0) =>
        /\ RatLeq(RatTimes(target_pct, NumSelected), ExposureCap)
        /\ RatLeq(SumAbsPct(SizingCalls), ExposureCap)

C5_Witness ==
    /\ evaluated
    /\ NumSelected >= 5
    /\ Len(SizingCalls) = NumSelected
    /\ RatEq(SumAbsPct(SizingCalls), ExposureCap)

\* C6: every sizing order of a bar carries the magnitude
\* min(max_position_pct, (1 - cash_buffer_pct) / (n_long + n_short)), which is
\* at most max_position_pct; it is positive for each long, negative for each short.
C6_Magnitude(m) ==
    /\ RatLeq(m, Rat(MAX_POSITION_PCT, One))
    /\ RatLeq(RatTimes(m, NumSelected), ExposureCap)
    /\ \/ RatEq(m, Rat(MAX_POSITION_PCT, One))
       \/ RatEq(RatTimes(m, NumSelected), ExposureCap)

C6_TargetMagnitudeAndSign ==
    (evaluated /\ NumSelected > 0) =>
        /\ \A k \in DOMAIN SizingCalls : C6_Magnitude(RatAbs(SizingCalls[k].pct))
        /\ \A d \in Range(longs) :
              \E k \in DOMAIN SizingCalls :
                  SizingCalls[k].data = d /\ SizingCalls[k].pct.num > 0
        /\ \A d \in Range(shorts) :
              \E k \in DOMAIN SizingCalls :
                  SizingCalls[k].data = d /\ SizingCalls[k].pct.num < 0
        /\ \A k \in DOMAIN SizingCalls :
              IF SizingCalls[k].pct.num > 0
              THEN SizingCalls[k].data \in Range(longs)
              ELSE SizingCalls[k].data \in Range(shorts)

C6_Witness ==
    /\ evaluated
    /\ longs # << >>
    /\ shorts # << >>
    /\ NumSelected >= 5
    /\ \E k \in DOMAIN SizingCalls : SizingCalls[k].pct.num < 0

\* C7: a selected long has probability >= p_long and edge p - 0.5 >= min_edge;
\* a selected short has probability <= p_short and edge 0.5 - p >= min_edge.
C7_ThresholdAndEdge ==
    /\ \A d \in Range(longs) : P(d) >= params.p_long /\ P(d) - Half >= MIN_EDGE
    /\ \A d \in Range(shorts) : P(d) <= params.p_short /\ Half - P(d) >= MIN_EDGE

\* C8: longs are in descending and shorts in ascending probability order with
\* ties in ascending instrument identifier, and both lists are the same for
\* every order in which the instruments are presented.
C8_Reordered(perm) ==
    Scores(perm, Universe \ Scored, [d \in Scored |-> P(d)])

C8_DeterministicUnderTies ==
    evaluated =>
        /\ \A k \in 1..(Len(longs) - 1) :
              \/ P(longs[k]) > P(longs[k + 1])
              \/ P(longs[k]) = P(longs[k + 1]) /\ longs[k] < longs[k + 1]
        /\ \A k \in 1..(Len(shorts) - 1) :
              \/ P(shorts[k]) < P(shorts[k + 1])
              \/ P(shorts[k]) = P(shorts[k + 1]) /\ shorts[k] < shorts[k + 1]
        /\ \A perm \in Perms(Universe) :
              /\ Longs(C8_Reordered(perm), params) = longs
              /\ Shorts(C8_Reordered(perm), params) = shorts

\* C9: each selected list has at most max_long_short entries, however many
\* instruments qualify.
C9_ListsCapped ==
    /\ Len(longs) <= params.max_long_short
    /\ Len(shorts) <= params.max_long_short

QualifyingLongs == {d \in Scored : P(d) >= params.p_long}
QualifyingShorts == {d \in Scored : P(d) <= params.p_short}

C9_Witness ==
    /\ evaluated
    /\ Cardinality(QualifyingLongs) > params.max_long_short
    /\ Cardinality(QualifyingShorts) > params.max_long_short
    /\ Len(longs) = params.max_long_short
    /\ Len(shorts) = params.max_long_short

\* C10: truncation keeps the strongest: no qualifying long left out has a
\* strictly higher probability than a selected long, and no qualifying short
\* left out has a strictly lower probability than a selected short.
C10_TruncationKeepsStrongest ==
    evaluated =>
        /\ \A d \in QualifyingLongs \ Range(longs) :
              \A e \in Range(longs) : ~(P(d) > P(e))
        /\ \A d \in QualifyingShorts \ Range(shorts) :
              \A e \in Range(shorts) : ~(P(d) < P(e))

C10_Witness ==
    /\ evaluated
    /\ \E d \in QualifyingLongs \ Range(longs) :
          \E e \in Range(longs) : P(d) < P(e)
    /\ \E d \in QualifyingShorts \ Range(shorts) :
          \E e \in Range(shorts) : P(d) > P(e)

\* C11: a protective stop is submitted only in response to the fill of the
\* instrument's entry: while an entry of an instrument is submitted and none
\* has filled yet, no protective stop order exists for that instrument.
C11_NoStopBeforeEntryFill ==
    \A d \in Universe :
        (EntryCount(d) > 0 /\ ~entryFilled[d]) => StopCount(d) = 0

StopCalls == SelectSeq(calls, LAMBDA c : c.op \in {"sell", "buy"})

C16_StopUsesConfiguredTrail ==
    \A k \in DOMAIN StopCalls :
        RatEq(StopCalls[k].pct, Rat(hp.trail_percent, One))

Selected == Range(longs) \cup Range(shorts)

\* C13: an instrument with a NaN feature in a bar (an indicator, or the VWAP
\* gap of a short window or of zero trailing volume) is not scored in that bar
\* and is in neither selected list.
C13_NaNInstrumentDropped ==
    evaluated =>
        \A d \in nanfeat : d \notin Scored /\ d \notin Selected

C13_Witness ==
    /\ evaluated
    /\ nanfeat # {}
    /\ Selected # {}
    /\ nanfeat \cup Scored = Universe

NonCloseOrders(os) == SelectSeq(os, LAMBDA o : o.kind # "close")

\* C14: a bar in which no instrument qualifies submits no sizing order and no
\* stop order, and never evaluates the division by n_long + n_short.
C14_EmptySelectionIsNoOp ==
    [][(barlen' = barlen + 1 /\ evaluated' /\ longs' = << >> /\ shorts' = << >>)
        => /\ NonCloseOrders(orders') = NonCloseOrders(orders)
           /\ SizingCalls' = << >>
           /\ StopCalls' = << >>
           /\ target_pct' = NoPct]_vars

C14_Witness ==
    /\ evaluated
    /\ longs = << >>
    /\ shorts = << >>
    /\ Scored # {}
    /\ \E d \in Universe : held[d] # 0

\* C15: a fill notification with no matching pending entry (a duplicate, a late
\* one, or one for an instrument without a filled entry) submits no order and
\* leaves the orders and positions of every instrument unchanged.
C15_Unmatched(d) == ~entryFilled[d] \/ notified[d] >= 1

C15_UnmatchedFillIgnored ==
    [][\A d \in Instruments :
          (C15_Unmatched(d) /\ notified'[d] = notified[d] + 1)
              => (orders' = orders /\ position' = position /\ calls' = calls)]_vars

C15_Witness ==
    /\ \E d \in Universe : entryFilled[d] /\ notified[d] = MaxNotify /\ orders # << >>
    /\ \E d \in Universe : ~entryFilled[d] /\ notified[d] = 1

\* C17: on every evaluated bar, also one with both selected lists empty, every
\* instrument held long and absent from longs, and every instrument held short
\* and absent from shorts, gets a close call in that bar.
Stale(d) ==
    \/ held[d] > 0 /\ d \notin Range(longs)
    \/ held[d] < 0 /\ d \notin Range(shorts)

C17_StalePositionsClosed ==
    evaluated => \A d \in Universe : Stale(d) => d \in ClosedInBar

\* C18: when a close order or a stop order brings the position of an instrument
\* whose entry had filled to zero, no entry order and no stop order of that
\* instrument is left open.
ClosesPosition(k) ==
    /\ orders[k].kind \in {"close", "stop"}
    /\ entryFilled[orders[k].data]
    /\ orders' = RemoveAt(orders, k)
    /\ position[orders[k].data] # 0
    /\ position'[orders[k].data] = 0
    /\ position' = [position EXCEPT ![orders[k].data] = @ + orders[k].size]

C18_NoOrderOutlivesPosition ==
    [][\A k \in DOMAIN orders :
          ClosesPosition(k) =>
              \A j \in DOMAIN orders' :
                  orders'[j].data = orders[k].data => orders'[j].kind = "close"]_vars

RECURSIVE SumSizes(_)
SumSizes(os) == IF os = << >> THEN 0 ELSE Head(os).size + SumSizes(Tail(os))

\* the market orders the calls of the bar submitted for instrument d
BarOrders(d) ==
    SelectSeq(Submitted(calls, held),
              LAMBDA o : o.data = d /\ o.exectype = "Market")

\* the position of d once every market order of the bar has filled
NetAfterBar(d) == held[d] + SumSizes(BarOrders(d))

WithinTarget(n) ==
    Abs(n) * Price * target_pct.den <= Abs(target_pct.num) * INITIAL_CASH

\* C19: in each bar every close call precedes every sizing call, and for every
\* instrument the market orders submitted for it in the bar together leave a
\* position of at most target_pct of the capital.
C19_ClosesFirstAndNotCompounded ==
    evaluated =>
        /\ \A i, j \in DOMAIN calls :
              (calls[i].op = "close" /\ calls[j].op = "order_target_percent")
                  => i < j
        /\ \A d \in Universe : BarOrders(d) # << >> => WithinTarget(NetAfterBar(d))

\* C20: for every list of universes and every --workers >= 1 the sweep ends:
\* it is never stuck before main is done, and when main is done every task was
\* dequeued, main wrote len(universes) x grid-size rows, and every started
\* worker has exited.
C20_SweepTerminates ==
    /\ main_pc # "done" => ENABLED NextSweep
    /\ main_pc = "done" =>
          /\ task_q = << >>
          /\ finished = total_tasks
          /\ \A i \in DOMAIN procs : procs[i].pc = "exited"

RowsOf(u, c) ==
    {k \in DOMAIN csv_rows : csv_rows[k].universe = u /\ csv_rows[k].cfg = c}

\* C21: every row written carries the universe its task was enqueued for, and
\* when the sweep is done the rows hold each (universe, configuration) pair
\* exactly once.
C21_EachPairOnceWithOwnLabel ==
    /\ \A k \in DOMAIN csv_rows : csv_rows[k].universe = csv_rows[k].enq
    /\ main_pc = "done" =>
          \A u \in Range(universes) : \A c \in Range(build_tasks) :
              Cardinality(RowsOf(u, c)) = 1

\* C22: when a bar is evaluated while an instrument has an entry order that
\* has not filled and the bar's selection does not contain the instrument, the
\* bar leaves no entry order of that instrument open.
C22_PendingEntryCancelled ==
    [][\A d \in Universe :
          (/\ barlen' = barlen + 1
           /\ evaluated'
           /\ EntryCount(d) > 0
           /\ d \notin Selected')
              => EntryCount(d)' = 0]_vars

\* C24: a bar delivered while len(self) is below min_bars evaluates nothing:
\* no instrument is scored and no close, sizing or stop order is submitted,
\* whatever positions are held and whatever the feeds carry.
C24_WarmUpEvaluatesNothing ==
    [][(barlen' = barlen + 1 /\ barlen' < params.min_bars)
        => /\ ~evaluated'
           /\ scores' = << >>
           /\ calls' = << >>
           /\ orders' = orders
           /\ position' = position]_vars

C24_Witness ==
    /\ barlen >= 1
    /\ barlen < params.min_bars
    /\ \E d \in Universe : position[d] > 0
    /\ \E d \in Universe : position[d] < 0

\* C25: a stop submitted for an instrument selected long is a sell stop, a stop
\* submitted for an instrument selected short is a buy stop, and no stop is
\* submitted for an instrument outside the bar's selected lists.
C25_StopOppositeToEntry ==
    \A k \in DOMAIN StopCalls :
        /\ StopCalls[k].data \in Selected
        /\ StopCalls[k].data \in Range(longs) => StopCalls[k].op = "sell"
        /\ StopCalls[k].data \in Range(shorts) => StopCalls[k].op = "buy"

\* tasks other than the pill still on the queue, and workers inside run_once
PendingTasks == Cardinality({k \in DOMAIN task_q : task_q[k] # NoneTask})
RunningTasks == Cardinality({i \in DOMAIN procs : procs[i].pc = "run"})

====
